---- MODULE Spec2Model ----
(***************************************************************************)
(* henhouse: the timeline (bucket engine) of db/timeline.cpp.              *)
(*                                                                         *)
(* A timeline owns a data vector of cumulative buckets and a sparse index  *)
(* of (time, pos) anchors.  put/get/diff/summary are translated from the   *)
(* C++ source; the index lookup (find_pos, find_pos_from_range,            *)
(* push_back), whose source is db/index.hpp, is modelled from its          *)
(* description.  Positions are 0-based as in the source: the bucket the    *)
(* source calls data[p] is data[p + 1] here, written At(d, p).             *)
(*                                                                         *)
(* time_type, count_type and offset_type are unsigned 64 bit integers.     *)
(* The model's values stay far below 2^64, so additions never wrap; an     *)
(* unsigned subtraction x - y with x < y is reported by the `wrapped'      *)
(* field of the result instead of being reduced modulo 2^64.  mean and     *)
(* variance are floating point values derived from sum, second_sum and n;  *)
(* the model carries sum, second_sum and n.                                *)
(***************************************************************************)
EXTENDS Integers, Sequences, FiniteSets, TLC

VARIABLES
    resolution,   \* index.meta().resolution, fixed by from_directory
    data,         \* timeline::data, the bucket vector
    index,        \* timeline::index, the anchor vector
    puts,         \* history: every put call so far, with its outcome
    op,           \* the last read operation (get, diff, summary) and its result
    fault,        \* the check (REQUIRE / CHECK / ENSURE) that failed, or "none"
    conn,         \* the put front-end's current connection
    calls         \* history: every _db.put(key, t, c) the put handler issued

vars == <<resolution, data, index, puts, op, fault, conn, calls>>

-----------------------------------------------------------------------------
(* Bounds of the model *)

\* number of put calls in a behaviour of Spec
MaxPuts == 3
\* number of buckets the steady writer of SpecLong fills
MaxLongData == 100
\* number of late or gap puts in a behaviour of SpecLong
MaxIrregular == 1
\* number of buckets the steady writer has filled when the late puts start
LateAfter == 58
\* number of request lines the put handler reads in a behaviour of SpecNet
MaxRequests == 3

\* resolutions a timeline is created with
Resolutions == {10}
\* the put calls of Spec, as <<time, count>>
PutCalls == {<<100, 5>>, <<100, 2>>, <<105, 2>>, <<105, 7>>, <<110, 3>>,
             <<110, 5>>, <<120, 2>>, <<120, 3>>, <<200, 7>>, <<200, 2>>}
\* times of the get calls of Spec
GetTimes == {95, 100, 105, 109, 110, 120, 200}
\* times a of the diff(a, a + w) calls of Spec
DiffTimes == {95, 100, 109, 110, 120, 190, 200}
\* the widths w of the diff(a, a + w) calls of Spec
DiffWidths == {1, 10, 20, 30, 110, -10, -90}
\* how many buckets back from the end the late puts of SpecLong aim
LateBacks == {1, 59, 60}
\* the times the steady writer of SpecLong starts at
LongStarts == {0, 100}
\* the request lines of SpecNet: the tokens of a line in wire order, a number
\* as its decimal digits; the last line lacks its time
NetLines == {<<"a", <<5>>, <<1, 0, 0>>>>, <<"a", <<3>>, <<1, 1, 0>>>>,
             <<"a", <<7>>, <<2, 0, 0>>>>, <<"a", <<1, 0>>, <<5>>>>,
             <<"b", <<2>>, <<1, 0, 5>>>>, <<"a", <<2>>>>}
\* the values a time that was never read from the line may hold
IndeterminateTimes == {0, 120}
\* the key of the series the timeline belongs to
SeriesKey == "a"

-----------------------------------------------------------------------------
(* Records *)

\* data_item{value, integral, second_integral}
data_item(v, i, s) == [value |-> v, integral |-> i, second_integral |-> s]

\* index_item{time, pos}
index_item(t, p) == [time |-> t, pos |-> p]

\* data[p] of the source (0-based)
At(d, p) == d[p + 1]

ADD_BUCKET_BACK_LIMIT == 60

NoOp == [kind |-> "none"]

\* no connection yet: state, the put calls issued on the connection, the line
\* read from it, and whether anything was written back to the client
NoConn == [state |-> "none", served |-> 0, line |-> <<>>, replied |-> FALSE]

-----------------------------------------------------------------------------
(* Sparse index (db/index.hpp) *)

Min(x, y) == IF x <= y THEN x ELSE y
Max(x, y) == IF x >= y THEN x ELSE y

\* The 0-based anchor a lookup of t selects: the largest anchor whose time is
\* <= t, the first anchor when t precedes every anchor.  The caller's hint is
\* tried first and the search is the fallback.
find_range(ix, t, hint) ==
    LET n == Len(ix)
        holds(i) == /\ i >= 0
                    /\ i < n
                    /\ ix[i + 1].time <= t
                    /\ (i + 1 < n => t < ix[i + 2].time)
        below == {i \in 0..(n - 1) : ix[i + 1].time <= t}
    IN  IF holds(hint) THEN hint
        ELSE IF below = {} THEN 0
        ELSE CHOOSE i \in below : \A j \in below : j <= i

\* pos_result{index_offset, time, pos, offset} of anchor `range' for time t:
\* offset = (t - anchor.time) / resolution, clamped to the anchor's run (the
\* positions before the next anchor's) when a next anchor exists.
find_pos_from_range(ix, res, t, range) ==
    LET a == ix[range + 1]
        raw == IF t < a.time THEN 0 ELSE (t - a.time) \div res
        offset == IF range + 1 < Len(ix)
                  THEN Min(raw, ix[range + 2].pos - a.pos - 1)
                  ELSE raw
    IN  [index_offset |-> range, time |-> a.time, pos |-> a.pos, offset |-> offset]

find_pos(ix, res, t, hint) ==
    find_pos_from_range(ix, res, t, find_range(ix, t, hint))

\* index.push_back enforces strict monotonicity in both fields
push_back_ok(ix, e) ==
    Len(ix) > 0 => /\ ix[Len(ix)].time < e.time
                   /\ ix[Len(ix)].pos < e.pos

-----------------------------------------------------------------------------
(* Bucket engine (db/timeline.cpp) *)

\* the partial sums of a bucket (propogate) and the ways it is applied
propogate(prev, current) ==
    LET v == current.value
    IN  data_item(v, prev.integral + v, prev.second_integral + (v * v))

\* a variant that sets the bucket's count where update_current adds to it
update_current_overwrite(prev, current, c) ==
    propogate(prev, data_item(c, current.integral, current.second_integral))

update_current(prev, current, c) ==
    propogate(prev, data_item(current.value + c, current.integral,
                              current.second_integral))

\* a variant that leaves the buckets after the updated one as they were
propogate_forward_skip(d, p) == d

\* for(auto p = pos + 1; p < data.size(); p++) propogate(data[p-1], data[p]);
RECURSIVE propogate_forward(_, _)
propogate_forward(d, p) ==
    IF p < Len(d)
    THEN propogate_forward([d EXCEPT ![p + 1] = propogate(At(d, p - 1), At(d, p))],
                           p + 1)
    ELSE d

\* a variant that adds the count to every bucket from pos on
put_update_all(d, pos, c) ==
    LET prev == IF pos > 0 THEN At(d, pos - 1) ELSE data_item(0, 0, 0)
        d1 == [q \in DOMAIN d |->
                 IF q >= pos + 1 THEN [d[q] EXCEPT !.value = @ + c] ELSE d[q]]
        d2 == [d1 EXCEPT ![pos + 1] = propogate(prev, d1[pos + 1])]
    IN  propogate_forward(d2, pos + 1)

\* the update of an existing bucket, within the backfill window
put_update(d, pos, c) ==
    LET prev == IF pos > 0 THEN At(d, pos - 1) ELSE data_item(0, 0, 0)
        d1 == [d EXCEPT ![pos + 1] = update_current(prev, At(d, pos), c)]
    IN  propogate_forward(d1, pos + 1)

\* a variant that still updates a bucket exactly ADD_BUCKET_BACK_LIMIT back
within_back_limit_inclusive(d, pos) == Len(d) - pos <= 60

\* whether an existing bucket at pos may still be updated
within_back_limit(d, pos) == Len(d) - pos < ADD_BUCKET_BACK_LIMIT

\* a variant that adds the count before it looks at the limit
put_existing_eager(d, ix, pos, c) ==
    LET d1 == [d EXCEPT ![pos + 1].value = @ + c]
    IN  IF Len(d) - pos < 60
        THEN [ret |-> TRUE, data |-> put_update(d, pos, c), index |-> ix,
              wrote |-> pos, fault |-> "none"]
        ELSE [ret |-> FALSE, data |-> d1, index |-> ix, wrote |-> -1,
              fault |-> "none"]

\* the bucket at pos is current or in the past: update it, or skip it when it
\* is too far back
put_existing(d, ix, pos, c) ==
    IF within_back_limit(d, pos)
    THEN [ret |-> TRUE, data |-> put_update(d, pos, c), index |-> ix,
          wrote |-> pos, fault |-> "none"]
    ELSE [ret |-> FALSE, data |-> d, index |-> ix, wrote |-> -1, fault |-> "none"]

\* a variant that starts the appended bucket's partial sums anew
put_new_bucket_fresh(d, c) == data_item(c, c, c * c)

\* the bucket appended past the end
put_new_bucket(d, c) ==
    LET last_pos == Len(d) - 1
        prev == At(d, last_pos)
    IN  propogate(prev, data_item(c, 0, 0))

\* variants that lose the offset, or its scaling by the resolution
aliased_time_stuck(p, res) == p.time
aliased_time_unscaled(p, res) == p.time + p.offset
\* a variant that names the bucket before the one the time falls in
aliased_time_short(p, res) == p.time + ((p.offset - 1) * res)

\* aliased_time of a gap append
aliased_time(p, res) == p.time + (p.offset * res)

\* a variant that leaves the first bucket's partial sums at zero
put_first_bucket_raw(c) == data_item(c, 0, 0)

\* the first bucket of an empty timeline
put_first_bucket(c) == data_item(c, c, c * c)

\* a variant that numbers the first bucket 1
put_first_anchor_one(t) == index_item(t, 1)

\* the first anchor of an empty timeline
put_first_anchor(t) == index_item(t, 0)

\* a variant that takes the first anchor for the last one
last_range_first(ix) == 0

\* const auto last_range = index.cend() - 1, as a 0-based anchor index
last_range_of(ix) == Len(ix) - 1

\* timeline::put: [ret, data, index, wrote, fault].  wrote is the position of
\* the bucket the call updated or appended (-1 when it wrote none).
put(d, ix, res, t, c) ==
    LET reject == [ret |-> FALSE, data |-> d, index |-> ix, wrote |-> -1,
                   fault |-> "none"]
    IN
    IF Len(ix) > 0
    THEN LET last_range == last_range_of(ix)
         IN  IF t >= ix[last_range + 1].time
             THEN LET p == find_pos_from_range(ix, res, t, last_range)
                      pos == p.pos + p.offset
                  IN  IF pos < Len(d)
                      THEN put_existing(d, ix, pos, c)
                      ELSE LET d1 == Append(d, put_new_bucket(d, c))
                               new_pos == Len(d)
                               index_entry == index_item(aliased_time(p, res), new_pos)
                           IN  IF pos = new_pos
                               THEN [ret |-> TRUE, data |-> d1, index |-> ix,
                                     wrote |-> new_pos, fault |-> "none"]
                               ELSE IF ~(index_entry.time <= t)
                               THEN [ret |-> FALSE, data |-> d1, index |-> ix,
                                     wrote |-> new_pos,
                                     fault |-> "CHECK_LESS_EQUAL(aliased_time, t)"]
                               ELSE IF ~push_back_ok(ix, index_entry)
                               THEN [ret |-> FALSE, data |-> d1, index |-> ix,
                                     wrote |-> new_pos,
                                     fault |-> "index.push_back"]
                               ELSE [ret |-> TRUE, data |-> d1,
                                     index |-> Append(ix, index_entry),
                                     wrote |-> new_pos, fault |-> "none"]
             ELSE reject
    ELSE IF Len(d) # 0
         THEN [ret |-> FALSE, data |-> d, index |-> ix, wrote |-> -1,
               fault |-> "CHECK_EQUAL(data.size(), 0)"]
         ELSE [ret |-> TRUE, data |-> <<put_first_bucket(c)>>,
               index |-> <<put_first_anchor(t)>>, wrote |-> 0, fault |-> "none"]

\* a variant that falls back to the anchor's own bucket
clamp_to_anchor(r, size) ==
    IF ~(r.pos < size)
    THEN [r |-> r, fault |-> "REQUIRE_LESS(r.pos, size)"]
    ELSE IF r.pos + r.offset < size
    THEN [r |-> r, fault |-> "none"]
    ELSE [r |-> [r EXCEPT !.offset = 0], fault |-> "none"]

\* clamp(r, size): [r, fault]
clamp(r, size) ==
    IF ~(r.pos < size)
    THEN [r |-> r, fault |-> "REQUIRE_LESS(r.pos, size)"]
    ELSE IF r.pos + r.offset < size
    THEN [r |-> r, fault |-> "none"]
    ELSE LET r1 == [r EXCEPT !.offset = size - r.pos - 1]
         IN  [r |-> r1,
              fault |-> IF r1.pos + r1.offset >= 0 /\ r1.pos + r1.offset <= size
                        THEN "none"
                        ELSE "ENSURE_RANGE(r.pos + r.offset, 0, size)"]

\* a variant that returns the first bucket for a time before the beginning
before_beginning_never(t, p) == FALSE

\* a variant that takes the times after the anchor for the times before it
before_beginning_reversed(t, p) == t > p.time

\* zero out data before beginning of collection
before_beginning(t, p) == t < p.time

\* timeline::get: get_result{index_offset, query_time, range_time, pos, offset,
\* value}, and the check that failed, if any
get(d, ix, res, t, index_offset) ==
    LET cl == clamp(find_pos(ix, res, t, index_offset), Len(d))
        p == cl.r
        dat == IF cl.fault # "none" \/ before_beginning(t, p)
               THEN data_item(0, 0, 0)
               ELSE At(d, p.pos + p.offset)
    IN  [index_offset |-> p.index_offset, query_time |-> t, range_time |-> p.time,
         pos |-> p.pos, offset |-> p.offset, value |-> dat, fault |-> cl.fault]

\* a variant that subtracts the buckets' counts, not their partial sums
diff_buckets_values(ta, tb, res, index_offset, a, b, n) ==
    [a |-> ta, b |-> tb, resolution |-> res, index_offset |-> index_offset,
     sum |-> b.value - a.value,
     second_sum |-> (b.value * b.value) - (a.value * a.value),
     n |-> n, left |-> a, right |-> b,
     wrapped |-> b.value < a.value,
     fault |-> IF ~(res > 0) THEN "REQUIRE_GREATER(resolution, 0)"
               ELSE IF ~(n > 0) THEN "REQUIRE_GREATER(n, 0)"
               ELSE "none"]

\* diff_buckets: sum and second_sum are unsigned differences; wrapped tells
\* that one of them was taken below zero.  mean = sum / n and
\* variance = second_sum / n - mean^2 are derived from the fields kept here.
diff_buckets(ta, tb, res, index_offset, a, b, n) ==
    [a |-> ta, b |-> tb, resolution |-> res, index_offset |-> index_offset,
     sum |-> b.integral - a.integral,
     second_sum |-> b.second_integral - a.second_integral,
     n |-> n, left |-> a, right |-> b,
     wrapped |-> b.integral < a.integral \/ b.second_integral < a.second_integral,
     fault |-> IF ~(res > 0) THEN "REQUIRE_GREATER(resolution, 0)"
               ELSE IF ~(n > 0) THEN "REQUIRE_GREATER(n, 0)"
               ELSE "none"]

\* a diff_result written out field by field (the two early returns of diff)
diff_result(a, b, res, left, right) ==
    [a |-> a, b |-> b, resolution |-> res, index_offset |-> 0, sum |-> 0,
     second_sum |-> 0, n |-> 0, left |-> left, right |-> right,
     wrapped |-> FALSE, fault |-> "none"]

\* a variant that takes the earlier of the query time and the anchor time
diff_b_min(br) == Min(br.query_time, br.range_time)

\* the end and the start of the diffed interval, and its number of buckets
diff_b(br) == Max(br.query_time, br.range_time)
diff_a(ar, b) == Min(ar.query_time, b)
diff_n(a, b, res) == (b - a) \div res

\* a variant that does not swap a reversed interval
diff_from_given(a0, b0) == a0

\* if(a > b) std::swap(a,b): the interval's start and end
diff_from(a0, b0) == IF a0 > b0 THEN b0 ELSE a0
diff_to(a0, b0) == IF a0 > b0 THEN a0 ELSE b0

\* timeline::diff
diff(d, ix, res, a0, b0, index_offset) ==
    LET a1 == diff_from(a0, b0)
        b1 == diff_to(a0, b0)
    IN
    IF ~(res > 0)
    THEN [diff_result(a1, b1, res, data_item(0, 0, 0), data_item(0, 0, 0))
            EXCEPT !.fault = "CHECK_GREATER(resolution, 0)"]
    ELSE IF Len(d) = 0
    THEN diff_result(a1, b1, res, data_item(0, 0, 0), data_item(0, 0, 0))
    ELSE LET ar == get(d, ix, res, a1, index_offset)
             br == get(d, ix, res, b1, index_offset)
             b == diff_b(br)
             a == diff_a(ar, b)
             n == diff_n(a, b, res)
         IN  IF ar.fault # "none"
             THEN [diff_result(a1, b1, res, ar.value, br.value)
                     EXCEPT !.fault = ar.fault]
             ELSE IF br.fault # "none"
             THEN [diff_result(a1, b1, res, ar.value, br.value)
                     EXCEPT !.fault = br.fault]
             ELSE IF n = 0
             THEN diff_result(a, b, res, ar.value, br.value)
             ELSE IF ~(ar.index_offset <= br.index_offset)
             THEN [diff_result(a, b, res, ar.value, br.value)
                     EXCEPT !.fault = "CHECK_LESS_EQUAL(ar.index_offset, br.index_offset)"]
             ELSE diff_buckets(a, b, res, ar.index_offset, ar.value, br.value, n)

\* a summary_result written out field by field
summary_result(from, to, res, sum, second_sum, n) ==
    [from |-> from, to |-> to, resolution |-> res, sum |-> sum,
     second_sum |-> second_sum, n |-> n, fault |-> "none"]

\* a variant that diffs against the first bucket
summary_first_bucket_data(d) == At(d, 0)

\* if we have one bucket then first is empty data item
summary_first_bucket(d) == data_item(0, 0, 0)

\* timeline::summary
summary(d, ix, res) ==
    IF ~(res > 0)
    THEN [summary_result(0, 0, res, 0, 0, 0)
            EXCEPT !.fault = "CHECK_GREATER(resolution, 0)"]
    ELSE IF Len(ix) = 0
    THEN summary_result(0, 0, res, 0, 0, 0)
    ELSE IF Len(d) = 0
    THEN [summary_result(0, 0, res, 0, 0, 0) EXCEPT !.fault = "REQUIRE(!data.empty())"]
    ELSE LET front == ix[1]
             back == ix[Len(ix)]
             from == front.time
             last_buckets == Len(d) - back.pos
             to == back.time + (last_buckets * res)
             n == (to - from) \div res
             first_bucket == summary_first_bucket(d)
             last_bucket == d[Len(d)]
             df == diff_buckets(from, to, res, 0, first_bucket, last_bucket, n)
         IN  IF ~(Len(d) > back.pos)
             THEN [summary_result(from, 0, res, 0, 0, 0)
                     EXCEPT !.fault = "CHECK_GREATER(data.size(), back.pos)"]
             ELSE IF ~(to > from)
             THEN [summary_result(from, to, res, 0, 0, 0)
                     EXCEPT !.fault = "CHECK_GREATER(to, from)"]
             ELSE [summary_result(from, to, res, df.sum, df.second_sum, n)
                     EXCEPT !.fault = df.fault]

-----------------------------------------------------------------------------
(* State machine *)

\* from_directory(path, resolution): an empty timeline of the given resolution
Init ==
    /\ resolution \in Resolutions
    /\ data = <<>>
    /\ index = <<>>
    /\ puts = <<>>
    /\ op = NoOp
    /\ fault = "none"
    /\ conn = NoConn
    /\ calls = <<>>

\* one call put(t, c)
Put(t, c) ==
    /\ fault = "none"
    /\ LET r == put(data, index, resolution, t, c)
       IN  /\ data' = r.data
           /\ index' = r.index
           /\ fault' = r.fault
           /\ puts' = Append(puts, [t |-> t, c |-> c, ret |-> r.ret,
                                    wrote |-> r.wrote])
    /\ op' = NoOp
    /\ UNCHANGED <<resolution, conn, calls>>

\* the anchor indexes a caller may hold as its cursor
Hints == 0..(Len(index) - 1)

\* A read leaves the timeline as it is: a read that follows a read reaches no
\* state that a read following the put before it does not reach, so the reads
\* are taken right after a put (or on the new timeline).
\* one call get(t, hint) on a timeline that holds data
Get(t, hint) ==
    /\ fault = "none"
    /\ op = NoOp
    /\ Len(index) > 0
    /\ LET r == get(data, index, resolution, t, hint)
       IN  /\ op' = [kind |-> "get", t |-> t, hint |-> hint, res |-> r]
           /\ fault' = r.fault
    /\ UNCHANGED <<resolution, data, index, puts, conn, calls>>

\* one call diff(a, b, hint)
Diff(a, b, hint) ==
    /\ fault = "none"
    /\ op = NoOp
    /\ LET r == diff(data, index, resolution, a, b, hint)
       IN  /\ op' = [kind |-> "diff", a |-> a, b |-> b, hint |-> hint, res |-> r]
           /\ fault' = r.fault
    /\ UNCHANGED <<resolution, data, index, puts, conn, calls>>

\* one call summary()
Summary ==
    /\ fault = "none"
    /\ op = NoOp
    /\ LET r == summary(data, index, resolution)
       IN  /\ op' = [kind |-> "summary", res |-> r]
           /\ fault' = r.fault
    /\ UNCHANGED <<resolution, data, index, puts, conn, calls>>

PutStep == \E call \in PutCalls : Len(puts) < MaxPuts /\ Put(call[1], call[2])

GetStep == \E t \in GetTimes, hint \in Hints : Get(t, hint)

DiffStep == \E a \in DiffTimes, w \in DiffWidths, hint \in Hints \cup {0} :
                Diff(a, a + w, hint)

Next == PutStep \/ GetStep \/ DiffStep \/ Summary

Spec == Init /\ [][Next]_vars

-----------------------------------------------------------------------------
(* A long timeline: a steady writer and a late one *)

\* the time of the bucket that would follow the last one
EndTime ==
    LET back == index[Len(index)]
    IN  back.time + ((Len(data) - back.pos) * resolution)

\* the puts so far that were not the steady writer's: those that appended no
\* bucket, and those that appended one past a gap
Irregular ==
    IF Len(index) = 0 THEN 0 ELSE (Len(puts) - Len(data)) + (Len(index) - 1)

\* the steady writer puts count 1 into the next bucket
Steady ==
    /\ Len(data) < MaxLongData
    /\ \E t \in (IF Len(index) = 0 THEN LongStarts ELSE {EndTime}) : Put(t, 1)

\* a late put of count 1, `back' buckets before the end
Late(back) ==
    /\ Len(data) >= LateAfter
    /\ Irregular < MaxIrregular
    /\ EndTime - (back * resolution) >= 0
    /\ Put(EndTime - (back * resolution), 1)

\* a late put at the time of the first bucket
LateFirst ==
    /\ Len(data) >= LateAfter
    /\ Irregular < MaxIrregular
    /\ Put(index[1].time, 1)

\* a put that skips one bucket width
Gap ==
    /\ Len(data) >= LateAfter
    /\ Len(data) < MaxLongData
    /\ Irregular < MaxIrregular
    /\ Put(EndTime + resolution, 1)

LateStep == \E back \in LateBacks : Late(back)

NextLong == Steady \/ LateStep \/ LateFirst \/ Gap

SpecLong == Init /\ [][NextLong]_vars

-----------------------------------------------------------------------------
(* Put front-end (service/put.hpp) *)

\* operator>> into an unsigned integer: the value of a token's decimal digits
RECURSIVE ParseUnsigned(_)
ParseUnsigned(tok) ==
    IF Len(tok) = 0 THEN 0
    ELSE (ParseUnsigned(SubSeq(tok, 1, Len(tok) - 1)) * 10) + tok[Len(tok)]

\* a variant that reads the time before the count
read_put_args_swapped(line) ==
    IF Len(line) >= 3
    THEN {[key |-> line[1], c |-> ParseUnsigned(line[3]), t |-> ParseUnsigned(line[2])]}
    ELSE {[key |-> line[1], c |-> u, t |-> ParseUnsigned(line[2])] :
             u \in IndeterminateTimes}

\* m >> key >> c >> t: the arguments put_handler::read hands to _db.put.  A
\* line without a time leaves t as it was declared, uninitialized.
read_put_args(line) ==
    IF Len(line) >= 3
    THEN {[key |-> line[1], c |-> ParseUnsigned(line[2]), t |-> ParseUnsigned(line[3])]}
    ELSE {[key |-> line[1], c |-> ParseUnsigned(line[2]), t |-> u] :
             u \in IndeterminateTimes}

\* threaded::server::put(key, t, c): the put of the series that owns the key;
\* a series other than the modelled one leaves this timeline alone
server_put(d, ix, res, key, t, c) ==
    IF key = SeriesKey
    THEN put(d, ix, res, t, c)
    ELSE [ret |-> TRUE, data |-> d, index |-> ix, wrote |-> -1, fault |-> "none"]

\* put_pipeline_factory::newPipeline: a client connects
NewPipeline ==
    /\ fault = "none"
    /\ conn.state # "open"
    /\ Len(calls) < MaxRequests
    /\ conn' = [state |-> "open", served |-> 0, line |-> <<>>, replied |-> FALSE]
    /\ UNCHANGED <<resolution, data, index, puts, op, fault, calls>>

\* put_handler::read(ctx, msg): one decoded line of an open connection
HandlerRead(line) ==
    /\ fault = "none"
    /\ conn.state = "open"
    /\ \E a \in read_put_args(line) :
          LET r == server_put(data, index, resolution, a.key, a.t, a.c)
          IN  /\ calls' = Append(calls, [key |-> a.key, t |-> a.t, c |-> a.c])
              /\ data' = r.data
              /\ index' = r.index
              /\ fault' = r.fault
              /\ puts' = IF a.key = SeriesKey
                         THEN Append(puts, [t |-> a.t, c |-> a.c, ret |-> r.ret,
                                            wrote |-> r.wrote])
                         ELSE puts
    /\ conn' = [state |-> "closed", served |-> conn.served + 1, line |-> line,
                replied |-> conn.replied]
    /\ op' = NoOp
    /\ UNCHANGED resolution

ReadStep == \E line \in NetLines : HandlerRead(line)

NextNet == NewPipeline \/ ReadStep

SpecNet == Init /\ [][NextNet]_vars

-----------------------------------------------------------------------------
(* Properties *)

\* the last put call and whether there is one
HasPut == Len(puts) > 0
LastPut == puts[Len(puts)]

\* a put call is the step that extends the history
PutReturned == Len(puts') = Len(puts) + 1 /\ fault' = "none"

RECURSIVE SumValue(_, _)
SumValue(d, p) == IF p = 0 THEN 0 ELSE d[p].value + SumValue(d, p - 1)

RECURSIVE SumSquare(_, _)
SumSquare(d, p) == IF p = 0 THEN 0 ELSE (d[p].value * d[p].value) + SumSquare(d, p - 1)

\* C1: after any sequence of put calls every bucket's integral is the sum of
\* the values of the buckets up to it, and its second_integral the sum of
\* their squares.
C1_PrefixSums ==
    \A p \in 1..Len(data) :
        /\ data[p].integral = SumValue(data, p)
        /\ data[p].second_integral = SumSquare(data, p)

\* an accepted update of a bucket that has buckets after it
C1_Witness ==
    /\ HasPut
    /\ LastPut.ret
    /\ LastPut.wrote >= 0
    /\ LastPut.wrote < Len(data) - 1

\* C2: the anchors are strictly increasing in time and in pos, and the index
\* never has to refuse an anchor that put hands it.
C2_AnchorsIncreasing ==
    /\ \A i \in 1..(Len(index) - 1) :
          /\ index[i].time < index[i + 1].time
          /\ index[i].pos < index[i + 1].pos
    /\ fault # "index.push_back"

\* a gap append has added a second anchor
C2_Witness == Len(index) >= 2 /\ HasPut /\ LastPut.ret /\ fault = "none"

\* C3: a put that returns false leaves the data vector and the index as they
\* were.
C3_RejectLeavesUnchanged ==
    [][(PutReturned /\ ~puts'[Len(puts')].ret) => (data' = data /\ index' = index)]_vars

\* a put was rejected for aiming too far back, on a timeline that holds data
C3_Witness ==
    /\ HasPut
    /\ ~LastPut.ret
    /\ fault = "none"
    /\ LastPut.t >= index[Len(index)].time
    /\ Len(data) >= 60

\* the position a time t resolves to from the last anchor
TargetOf(t) ==
    LET last_anchor == index[Len(index)]
    IN  last_anchor.pos + ((t - last_anchor.time) \div resolution)

\* whether put(t, c) is to be rejected in the current state
ToReject(t) ==
    /\ Len(index) > 0
    /\ \/ t < index[Len(index)].time
       \/ /\ TargetOf(t) < Len(data)
          /\ Len(data) - TargetOf(t) >= 60

\* 100 contiguous buckets from time 0 at resolution 10
Hundred ==
    /\ resolution = 10
    /\ Len(data) = 100
    /\ index = <<index_item(0, 0)>>

\* C4: put returns false exactly when the timeline holds data and t precedes
\* the last anchor or the target exists 60 or more buckets back from the end;
\* after 100 contiguous buckets put(0, 1) is rejected and put(410, 1) accepted.
C4_RejectExactly ==
    [][PutReturned =>
          LET call == puts'[Len(puts')]
          IN  /\ call.ret = ~ToReject(call.t)
              /\ (Hundred /\ call.t = 0 /\ call.c = 1) => ~call.ret
              /\ (Hundred /\ call.t = 410 /\ call.c = 1) => call.ret]_vars

\* put(410, 1) was accepted on 100 contiguous buckets: 59 back from the end
C4_Witness ==
    /\ Hundred
    /\ HasPut
    /\ LastPut.t = 410
    /\ LastPut.ret
    /\ Len(data) - LastPut.wrote = 59

\* the position get located for the read in op
Located == op.res.pos + op.res.offset

\* the accepted puts that wrote the bucket at position w
PutsInto(w) == {i \in DOMAIN puts : puts[i].ret /\ puts[i].wrote = w}

\* a diff(a, b) was issued right after an accepted put(t, c)
DiffAfterPut(a, b) ==
    /\ op.kind = "diff"
    /\ op.res.fault = "none"
    /\ HasPut
    /\ LastPut.ret
    /\ op.a = a
    /\ op.b = b

\* C5 as stated: diff(t, t + resolution) right after an accepted put(t, c)
\* returns sum >= c, and sum = c when no other put landed in t's bucket.
C5_Original ==
    (HasPut /\ DiffAfterPut(LastPut.t, LastPut.t + resolution)) =>
        /\ op.res.sum >= LastPut.c
        /\ Cardinality(PutsInto(LastPut.wrote)) = 1 => op.res.sum = LastPut.c

\* C5 amended: diff(t - resolution, t) right after an accepted put(t, c)
\* returns sum >= c, and sum = c when no other put landed in t's bucket;
\* diff(t, t + resolution) returns the value of the bucket after t's, and 0
\* when t's bucket is the last one.
C5_DiffSeesPut ==
    /\ (HasPut /\ DiffAfterPut(LastPut.t - resolution, LastPut.t)) =>
          /\ op.res.sum >= LastPut.c
          /\ op.res.sum = At(data, LastPut.wrote).value
          /\ Cardinality(PutsInto(LastPut.wrote)) = 1 => op.res.sum = LastPut.c
    /\ (HasPut /\ DiffAfterPut(LastPut.t, LastPut.t + resolution)) =>
          op.res.sum = IF LastPut.wrote + 1 < Len(data)
                       THEN At(data, LastPut.wrote + 1).value
                       ELSE 0

\* diff(t - resolution, t) was issued after an accepted put(t, c) into a
\* bucket that holds an earlier put as well
C5_Witness ==
    /\ HasPut
    /\ DiffAfterPut(LastPut.t - resolution, LastPut.t)
    /\ Cardinality(PutsInto(LastPut.wrote)) = 2
    /\ LastPut.wrote > 0

\* a diff from the time of the first bucket to the time just past the last
DiffWhole ==
    /\ op.kind = "diff"
    /\ op.res.fault = "none"
    /\ Len(index) > 0
    /\ op.a = index[1].time
    /\ op.b = EndTime

\* the three timelines of the concrete scenarios
AfterThreePuts ==
    /\ resolution = 10
    /\ index = <<index_item(100, 0)>>
    /\ data = <<data_item(5, 5, 25), data_item(3, 8, 34), data_item(2, 10, 38)>>

AfterGapPut ==
    /\ resolution = 10
    /\ index = <<index_item(100, 0), index_item(200, 1)>>
    /\ data = <<data_item(5, 5, 25), data_item(7, 12, 74)>>

AfterBackfillPut ==
    /\ resolution = 10
    /\ index = <<index_item(100, 0)>>
    /\ data = <<data_item(7, 7, 49), data_item(3, 10, 58)>>

DiffIs(a, b) == op.kind = "diff" /\ op.a = a /\ op.b = b

\* C6 as stated: the diff over the whole timeline returns the total of all
\* buckets, the first included: sum 10 and n 3, sum 12 and n 11, sum 10 in
\* the scenarios.
C6_Original ==
    /\ DiffWhole =>
          /\ op.res.sum = SumValue(data, Len(data))
          /\ op.res.n = (op.b - op.a) \div resolution
    /\ (AfterThreePuts /\ DiffIs(100, 130)) => (op.res.sum = 10 /\ op.res.n = 3)
    /\ (AfterGapPut /\ DiffIs(100, 210)) => (op.res.sum = 12 /\ op.res.n = 11)
    /\ (AfterBackfillPut /\ DiffIs(100, 120)) => op.res.sum = 10

\* C6 amended: the diff over the whole timeline returns the total of the
\* buckets after the first one, and n = (b - a) / resolution: sum 5 and n 3,
\* sum 7 and n 11, sum 3 in the scenarios.
C6_DiffWhole ==
    /\ DiffWhole =>
          /\ op.res.sum = SumValue(data, Len(data)) - data[1].value
          /\ op.res.n = (op.b - op.a) \div resolution
    /\ (AfterThreePuts /\ DiffIs(100, 130)) => (op.res.sum = 5 /\ op.res.n = 3)
    /\ (AfterGapPut /\ DiffIs(100, 210)) => (op.res.sum = 7 /\ op.res.n = 11)
    /\ (AfterBackfillPut /\ DiffIs(100, 120)) => (op.res.sum = 3 /\ op.res.n = 2)

\* the diff over the whole timeline of the gap scenario
C6_Witness == AfterGapPut /\ DiffIs(100, 210) /\ DiffWhole

\* the bucket position a time resolves to without clamping to the data
PosOf(t) ==
    LET p == find_pos(index, resolution, t, 0)
    IN  p.pos + p.offset

\* t resolves to an existing bucket, and is not before the first anchor
Resolves(t) ==
    /\ Len(index) > 0
    /\ t >= index[1].time
    /\ PosOf(t) < Len(data)

\* a diff(a, b) with a <= b, both resolving to existing buckets
DiffResolved ==
    /\ op.kind = "diff"
    /\ op.res.fault = "none"
    /\ op.a <= op.b
    /\ Resolves(op.a)
    /\ Resolves(op.b)

IntegralDiff(a, b) == At(data, PosOf(b)).integral - At(data, PosOf(a)).integral

\* C7 as stated: for a <= b resolving to existing buckets the sum of diff is
\* the difference of the two buckets' integrals, also for a and b less than
\* one resolution apart.
C7_Original == DiffResolved => op.res.sum = IntegralDiff(op.a, op.b)

\* C7 amended: ... the sum of diff is the difference of the two buckets'
\* integrals when (b - a) / resolution >= 1; for a and b less than one
\* resolution apart it is 0, with n = 0, whatever buckets they fall in.
C7_DiffIsIntegralDiff ==
    DiffResolved =>
        /\ (op.b - op.a) \div resolution >= 1 => op.res.sum = IntegralDiff(op.a, op.b)
        /\ (op.b - op.a) \div resolution = 0 => (op.res.sum = 0 /\ op.res.n = 0)

\* a diff across an anchor, over buckets that hold different integrals
C7_Witness ==
    /\ DiffResolved
    /\ (op.b - op.a) \div resolution >= 1
    /\ Len(index) >= 2
    /\ PosOf(op.a) < index[2].pos
    /\ PosOf(op.b) >= index[2].pos
    /\ op.res.sum > 0

\* a diff of two times less than one resolution apart, in different buckets
C7_WitnessNear ==
    /\ DiffResolved
    /\ (op.b - op.a) \div resolution = 0
    /\ PosOf(op.a) # PosOf(op.b)

\* C8: once put(t, c) has returned true, every later get(t, hint), after any
\* further puts, locates the bucket that put wrote, and finds a value >= c.
C8_GetFindsPut ==
    (op.kind = "get" /\ op.res.fault = "none") =>
        \A i \in DOMAIN puts :
            (puts[i].ret /\ puts[i].t = op.t) =>
                /\ Located = puts[i].wrote
                /\ ~before_beginning(op.t, [time |-> op.res.range_time])
                /\ op.res.value.value >= puts[i].c

\* a get of the time of an accepted put, after a later put appended a bucket
\* past a gap, with a hint that is not the anchor of that time
C8_Witness ==
    /\ op.kind = "get"
    /\ Len(index) >= 2
    /\ \E i \in DOMAIN puts :
          /\ puts[i].ret
          /\ puts[i].t = op.t
          /\ puts[i].wrote < index[2].pos
          /\ i < Len(puts)
    /\ op.hint = 1

\* the counts of the accepted puts, added up
RECURSIVE Accepted(_, _)
Accepted(h, n) ==
    IF n = 0 THEN 0
    ELSE (IF h[n].ret THEN h[n].c ELSE 0) + Accepted(h, n - 1)

\* C9: on a timeline that holds data summary returns from = front.time,
\* to = back.time + (data.size() - back.pos) * resolution,
\* n = (to - from) / resolution and sum = data.back().integral, the total of
\* the counts of the accepted puts; after put(100, 5) at resolution 10 it
\* returns from 100, to 110, sum 5, n 1.
C9_Summary ==
    (op.kind = "summary" /\ Len(data) > 0) =>
        /\ op.res.fault = "none"
        /\ op.res.from = index[1].time
        /\ op.res.to = EndTime
        /\ op.res.n = (EndTime - index[1].time) \div resolution
        /\ op.res.sum = data[Len(data)].integral
        /\ op.res.sum = Accepted(puts, Len(puts))
        /\ (resolution = 10 /\ Len(puts) = 1 /\ puts[1].t = 100 /\ puts[1].c = 5) =>
              /\ op.res.from = 100
              /\ op.res.to = 110
              /\ op.res.sum = 5
              /\ op.res.n = 1

\* a summary of a timeline with a gap and a rejected put
C9_Witness ==
    /\ op.kind = "summary"
    /\ Len(index) >= 2
    /\ Len(puts) > Len(data)
    /\ \E i \in DOMAIN puts : ~puts[i].ret

\* the summary of the timeline after put(100, 5)
C9_WitnessFirst ==
    /\ op.kind = "summary"
    /\ Len(puts) = 1
    /\ puts[1].t = 100
    /\ puts[1].c = 5
    /\ op.res.sum = 5

\* C10 as stated: every anchor's time is a multiple of resolution.
C10_Original == \A i \in DOMAIN index : index[i].time % resolution = 0

\* C10 amended: the first anchor holds the time of the first put as it came,
\* and every later anchor is a whole number of resolutions after it.
C10_AnchorsAligned ==
    /\ Len(index) > 0 => index[1].time = puts[1].t
    /\ \A i \in DOMAIN index : (index[i].time - index[1].time) % resolution = 0

\* a gap anchor derived from a first anchor that is no multiple of resolution
C10_Witness ==
    /\ Len(index) >= 2
    /\ index[1].time % resolution # 0
    /\ index[2].time % resolution # 0

\* C11: the data vector and the index are both empty or both non-empty, and
\* the first put takes both to length 1: the bucket {c, c, c^2} and the
\* anchor {t, 0}.
C11_EmptyTogether ==
    /\ (Len(data) = 0) <=> (Len(index) = 0)
    /\ Len(puts) = 0 => (Len(data) = 0 /\ Len(index) = 0)
    /\ Len(puts) = 1 =>
          /\ puts[1].ret
          /\ data = <<[value |-> puts[1].c, integral |-> puts[1].c,
                       second_integral |-> puts[1].c * puts[1].c]>>
          /\ index = <<[time |-> puts[1].t, pos |-> 0]>>

\* the timeline right after its first put, of a time off the bucket grid
C11_Witness == Len(puts) = 1 /\ puts[1].t = 105 /\ Len(data) = 1 /\ op = NoOp

\* C12: diff(a, b, hint) with a > b returns the record diff(b, a, hint)
\* returns: the same a, b, n, sum and attached buckets.
C12_DiffReversed ==
    (op.kind = "diff" /\ op.a > op.b) =>
        LET forward == diff(data, index, resolution, op.b, op.a, op.hint)
        IN  /\ op.res = forward
            /\ op.res.a <= op.res.b
            /\ op.res.a = Min(op.b, op.res.b)

\* a reversed diff across buckets that hold different partial sums
C12_Witness ==
    /\ op.kind = "diff"
    /\ op.a > op.b
    /\ op.res.n > 0
    /\ op.res.sum > 0
    /\ Len(index) >= 2

\* C13: on a timeline that holds data, get(t, hint) for t before the first
\* anchor's time returns the zero bucket with the first anchor's time as its
\* range time, whatever data[0] holds.
C13_GetBeforeFirst ==
    (op.kind = "get" /\ op.t < index[1].time) =>
        /\ op.res.fault = "none"
        /\ op.res.value = [value |-> 0, integral |-> 0, second_integral |-> 0]
        /\ op.res.range_time = index[1].time
        /\ op.res.query_time = op.t

\* a get before the first anchor, with the last of two anchors as the hint
C13_Witness ==
    /\ op.kind = "get"
    /\ op.t < index[1].time
    /\ Len(index) >= 2
    /\ op.hint = 1
    /\ data[1].value > 0

\* a put call whose target lies at or beyond the end of the data
PutBeyond ==
    /\ PutReturned
    /\ Len(index) > 0
    /\ puts'[Len(puts')].t >= index[Len(index)].time
    /\ TargetOf(puts'[Len(puts')].t) >= Len(data)

\* C14: a put whose target is at or beyond data.size() is accepted and
\* appends exactly one bucket, {c, prev.integral + c, prev.second_integral +
\* c^2}; it appends the anchor {aliased_time, new_pos}, aliased_time <= t,
\* exactly when the target is not the old data.size(), and leaves the index
\* alone otherwise.
C14_AppendOne ==
    [][PutBeyond =>
          LET call == puts'[Len(puts')]
              prev == data[Len(data)]
              last_anchor == index[Len(index)]
              target == TargetOf(call.t)
              aliased == last_anchor.time + ((target - last_anchor.pos) * resolution)
          IN  /\ call.ret
              /\ data' = Append(data, [value |-> call.c,
                                       integral |-> prev.integral + call.c,
                                       second_integral |->
                                           prev.second_integral + (call.c * call.c)])
              /\ target = Len(data) => index' = index
              /\ target # Len(data) =>
                    /\ index' = Append(index, [time |-> aliased, pos |-> Len(data)])
                    /\ aliased <= call.t
                    /\ call.t - aliased < resolution]_vars

\* put(100, 5) then put(200, 7): two buckets and the anchors {100, 0}, {200, 1}
C14_Witness == AfterGapPut /\ Len(puts) = 2 /\ LastPut.ret /\ op = NoOp

\* a put call whose target is an existing bucket within the backfill window
PutUpdate ==
    /\ PutReturned
    /\ puts'[Len(puts')].ret
    /\ Len(index) > 0
    /\ TargetOf(puts'[Len(puts')].t) < Len(data)

\* C15: an accepted put into an existing bucket leaves data.size(), the
\* index, the buckets below the target and the values above it as they were;
\* it adds c to the target's value, and rewrites partial sums in
\* [target, data.size()) only, at most 59 buckets.
C15_UpdateFrame ==
    [][PutUpdate =>
          LET call == puts'[Len(puts')]
              target == TargetOf(call.t)
          IN  /\ call.wrote = target
              /\ Len(data') = Len(data)
              /\ index' = index
              /\ \A q \in 0..(target - 1) : At(data', q) = At(data, q)
              /\ At(data', target).value = At(data, target).value + call.c
              /\ \A q \in (target + 1)..(Len(data) - 1) :
                    /\ At(data', q).value = At(data, q).value
                    /\ At(data', q).integral = At(data, q).integral + call.c
              /\ Len(data) - target <= 59
              /\ Len(data) - target >= 1]_vars

\* an accepted put 59 buckets back from the end
C15_Witness ==
    /\ HasPut
    /\ LastPut.ret
    /\ LastPut.wrote >= 0
    /\ Len(data) - LastPut.wrote = 59
    /\ data[Len(data)].integral = Len(data) + 1

\* C16: between consecutive anchors the time advances by more than the
\* positions do: A(i+1).time - A(i).time > (A(i+1).pos - A(i).pos) * resolution,
\* so the dense run of A(i) ends before the time of A(i+1).
C16_AnchorsAtGaps ==
    \A i \in 1..(Len(index) - 1) :
        /\ index[i + 1].time - index[i].time >
              (index[i + 1].pos - index[i].pos) * resolution
        /\ \A k \in 0..(index[i + 1].pos - index[i].pos - 1) :
              index[i].time + (k * resolution) < index[i + 1].time

\* three anchors, the first run one bucket long
C16_Witness ==
    /\ Len(index) = 3
    /\ Len(data) = 3
    /\ fault = "none"
    /\ op.kind = "summary"

\* C17: the checks that guard the reads never fail: every anchor's pos is
\* below data.size(), and the time just past the last bucket is after the
\* first anchor's time.
C17_ReadChecksHold ==
    /\ fault = "none"
    /\ \A i \in DOMAIN index : index[i].pos < Len(data)
    /\ Len(index) > 0 => EndTime > index[1].time
    /\ op.kind \in {"get", "diff", "summary"} => op.res.fault = "none"

\* a get that clamp brought back from beyond the end, on two anchors
C17_Witness ==
    /\ op.kind = "get"
    /\ Len(index) >= 2
    /\ op.t >= EndTime
    /\ Located = Len(data) - 1

\* C18: the buckets below the last anchor's position are frozen, and so are
\* the anchors: no put changes a bucket at a position below index.back().pos
\* nor an anchor that exists.
C18_FrozenBelowAnchor ==
    [][Len(index) > 0 =>
          /\ Len(index') >= Len(index)
          /\ \A i \in DOMAIN index : index'[i] = index[i]
          /\ Len(data') >= Len(data)
          /\ \A q \in 0..(index[Len(index)].pos - 1) : At(data', q) = At(data, q)]_vars

\* an accepted update of the bucket of the last of two anchors
C18_Witness ==
    /\ Len(index) = 2
    /\ HasPut
    /\ LastPut.ret
    /\ LastPut.wrote = index[2].pos
    /\ Cardinality(PutsInto(LastPut.wrote)) = 2

\* the results of the two gets a diff makes, for its interval in order
DiffLeft == get(data, index, resolution, Min(op.a, op.b), op.hint)
DiffRight == get(data, index, resolution, Max(op.a, op.b), op.hint)

\* C19: diff never fails a check and never subtracts below zero: the bucket
\* located for a is at or before the one located for b, so the partial sums
\* of B are at least those of A; the clamped times are in order;
\* ar.index_offset <= br.index_offset; diff_buckets is called with n > 0.
C19_DiffInOrder ==
    (op.kind = "diff" /\ Len(data) > 0) =>
        /\ op.res.fault = "none"
        /\ ~op.res.wrapped
        /\ op.res.sum >= 0
        /\ op.res.second_sum >= 0
        /\ op.res.a <= op.res.b
        /\ op.res.n = (op.res.b - op.res.a) \div resolution
        /\ op.res.left = DiffLeft.value
        /\ op.res.right = DiffRight.value
        /\ op.res.right.integral >= op.res.left.integral
        /\ op.res.right.second_integral >= op.res.left.second_integral
        /\ DiffLeft.index_offset <= DiffRight.index_offset
        /\ (~before_beginning(DiffLeft.query_time, [time |-> DiffLeft.range_time])) =>
              DiffLeft.pos + DiffLeft.offset <= DiffRight.pos + DiffRight.offset

\* a diff from within the first run to beyond the end, across an anchor, with
\* the last anchor as the hint
C19_Witness ==
    /\ op.kind = "diff"
    /\ Len(index) >= 2
    /\ op.hint = 1
    /\ op.res.n > 0
    /\ op.a >= index[1].time
    /\ op.a < index[2].time
    /\ op.b >= EndTime
    /\ op.res.sum > 0

\* the put handler read a line of the current connection
LineRead == conn.state = "open" /\ conn'.state # "open"

\* C20: for each line key, count, time the put handler issues exactly one
\* call put(key, time, count), and then closes the connection, whether or not
\* the put was accepted: a connection carries at most one put, and nothing
\* is written back to the client.
C20_OnePutPerConnection ==
    [][/\ LineRead =>
             /\ conn'.state = "closed"
             /\ conn'.served = 1
             /\ ~conn'.replied
             /\ Len(calls') = Len(calls) + 1
             /\ Len(conn'.line) = 3 =>
                   /\ calls'[Len(calls')].key = conn'.line[1]
                   /\ calls'[Len(calls')].c = ParseUnsigned(conn'.line[2])
                   /\ calls'[Len(calls')].t = ParseUnsigned(conn'.line[3])
             /\ conn'.line = <<"a", <<1, 0>>, <<5>>>> =>
                   calls'[Len(calls')] = [key |-> "a", t |-> 5, c |-> 10]
       /\ calls' # calls => LineRead
       /\ conn.served <= 1]_vars

\* the connection was closed after a put that the timeline rejected
C20_Witness ==
    /\ conn.state = "closed"
    /\ conn.line = <<"a", <<1, 0>>, <<5>>>>
    /\ HasPut
    /\ ~LastPut.ret
    /\ LastPut.t = 5
    /\ Len(calls) = 2

====
